---------------------------- MODULE Spec2Model ----------------------------
(***************************************************************************)
(* A model of impall (src/impall.py): the directory walk, the INCLUDE /    *)
(* EXCLUDE matcher, the isolated import of one unit with save/restore of   *)
(* sys.path and sys.modules, the run (impall) and the reconciliation of    *)
(* the run's result against FAILING (test_all).                            *)
(*                                                                         *)
(* Strings are sequences of one-character strings, so that startswith,     *)
(* endswith, split and fnmatch are computed and not looked up.  A path is  *)
(* the sequence of its names; path_str gives the text the matcher sees.    *)
(***************************************************************************)
EXTENDS Integers, Sequences, FiniteSets, TLC

VARIABLES
    self,             \* the test case's properties (class attributes, 124-131)
    fs,               \* the filesystem: [dirs, files], sets of paths
    cwd,              \* os.getcwd()
    sys_path,         \* sys.path
    sys_modules,      \* sys.modules, a function from module names to modules
    filters,          \* warnings.filters
    pc,               \* where the run is
    todo,             \* what the generator _all_imports has yet to yield
    yielded,          \* what it has yielded so far
    attempted,        \* the units whose import was attempted, in order
    successes,        \* impall's successes
    failures,         \* impall's failures
    raised,           \* the unit whose error left impall, or None
    last,             \* what the last _import did (observation of one call)
    pre,              \* sys.path, sys.modules and warnings.filters before the run
    report,           \* what test_all reported
    m_name,           \* matcher probe: the name handed to the matcher
    m_inc,            \* matcher probe: what _inc answered
    m_exc             \* matcher probe: what _exc answered

vars == <<self, fs, cwd, sys_path, sys_modules, filters, pc, todo, yielded,
          attempted, successes, failures, raised, last, pre, report,
          m_name, m_inc, m_exc>>

(***************************************************************************)
(* Bounds of the model.                                                    *)
(***************************************************************************)
MaxNameLen == 5

(***************************************************************************)
(* Strings.                                                                *)
(***************************************************************************)
RECURSIVE startswith(_, _)
startswith(s, p) ==
    IF p = <<>> THEN TRUE
    ELSE IF s = <<>> THEN FALSE
    ELSE Head(s) = Head(p) /\ startswith(Tail(s), Tail(p))

endswith(s, p) ==
    /\ Len(s) >= Len(p)
    /\ SubSeq(s, Len(s) - Len(p) + 1, Len(s)) = p

\* str.split(sep) for a one-character separator: never empty, "" gives [""].
RECURSIVE split(_, _)
split(s, sep) ==
    IF \A i \in 1..Len(s) : s[i] # sep THEN <<s>>
    ELSE LET i == CHOOSE k \in 1..Len(s) :
                      s[k] = sep /\ \A j \in 1..(k - 1) : s[j] # sep
         IN  <<SubSeq(s, 1, i - 1)>> \o split(SubSeq(s, i + 1, Len(s)), sep)

(***************************************************************************)
(* fnmatch.fnmatch(name, pat), as impall calls it at line 309: the whole   *)
(* name must match; * matches any run of characters (separators too), ?    *)
(* matches any one character, every other character matches itself.  The   *)
(* model's alphabet holds no [, so character classes do not arise.         *)
(***************************************************************************)
\* A segment-wise matcher, in which * stops at a dot.
RECURSIVE fnmatch_segment(_, _)
fnmatch_segment(name, pat) ==
    IF pat = <<>> THEN name = <<>>
    ELSE IF Head(pat) = "*"
         THEN \/ fnmatch_segment(name, Tail(pat))
              \/ /\ name # <<>> /\ Head(name) # "."
                 /\ fnmatch_segment(Tail(name), pat)
    ELSE IF Head(pat) = "?"
         THEN name # <<>> /\ fnmatch_segment(Tail(name), Tail(pat))
    ELSE /\ name # <<>> /\ Head(name) = Head(pat)
         /\ fnmatch_segment(Tail(name), Tail(pat))

RECURSIVE fnmatch(_, _)
fnmatch(name, pat) ==
    IF pat = <<>> THEN name = <<>>
    ELSE IF Head(pat) = "*"
         THEN \/ fnmatch(name, Tail(pat))
              \/ name # <<>> /\ fnmatch(Tail(name), pat)
    ELSE IF Head(pat) = "?"
         THEN name # <<>> /\ fnmatch(Tail(name), Tail(pat))
    ELSE name # <<>> /\ Head(name) = Head(pat) /\ fnmatch(Tail(name), Tail(pat))

(***************************************************************************)
(* A property value that is a string or a sequence of strings (or None):   *)
(* [kind |-> "str", val |-> string], [kind |-> "seq", val |-> strings].    *)
(***************************************************************************)
Str(s) == [kind |-> "str", val |-> s]
Tuple(t) == [kind |-> "seq", val |-> t]
NoneVal == [kind |-> "none", val |-> <<>>]

\* `not s`: None, "", () and [] are falsy.
falsy(s) == s.kind = "none" \/ s.val = <<>>

_split(s) ==
    IF falsy(s) THEN <<>>
    ELSE IF s.kind = "str" THEN split(s.val, ":")
    ELSE s.val

\* A matcher in which a trailing .** also stands for no segment at all.
_split_pattern_zero_or_more(s, x) ==
    LET parts == _split(s)
    IN  \E i \in 1..Len(parts) :
            \/ fnmatch(x, parts[i])
            \/ /\ Len(parts[i]) > 3
               /\ SubSeq(parts[i], Len(parts[i]) - 2, Len(parts[i])) = <<".", "*", "*">>
               /\ x = SubSeq(parts[i], 1, Len(parts[i]) - 3)

_split_pattern(s, x) ==
    LET parts == _split(s)
    IN  \E i \in 1..Len(parts) : fnmatch(x, parts[i])

_exc(me, x) == _split_pattern(IF falsy(me.EXCLUDE) THEN Tuple(<<>>) ELSE me.EXCLUDE, x)

_inc(me, x) ==
    IF me.INCLUDE.kind = "none" THEN TRUE
    ELSE _split_pattern(me.INCLUDE, x)

(***************************************************************************)
(* Names and paths.  A path string is the sequence of its names; an        *)
(* absolute path starts with the name ROOT ("/"), and <<>> is "".          *)
(***************************************************************************)
ROOT == <<"/">>
PY == <<".", "p", "y">>
DOT == <<".">>
DOTDOT == <<".", ".">>
INIT_PY == <<"_", "_", "i", "n", "i", "t", "_", "_">> \o PY
MAIN_PY == <<"_", "_", "m", "a", "i", "n", "_", "_">> \o PY

Front(s) == SubSeq(s, 1, Len(s) - 1)
Last(s) == s[Len(s)]

RECURSIVE join_with(_, _)
join_with(names, sep) ==
    IF names = <<>> THEN <<>>
    ELSE IF Len(names) = 1 THEN names[1]
    ELSE names[1] \o <<sep>> \o join_with(Tail(names), sep)

\* The text of a path: its names joined with "/" ("/" itself for ROOT).
RECURSIVE path_str(_)
path_str(p) ==
    IF p = <<>> THEN <<>>
    ELSE IF p[1] = ROOT
         THEN IF Len(p) = 1 THEN ROOT ELSE ROOT \o join_with(Tail(p), "/")
    ELSE join_with(p, "/")

isabs(p) == p # <<>> /\ p[1] = ROOT
abspath(p) == IF isabs(p) THEN p ELSE cwd \o p

os_path_exists(p) == p # <<>> /\ abspath(p) \in (fs.dirs \cup fs.files)
os_path_isdir(p) == p # <<>> /\ abspath(p) \in fs.dirs
os_path_join(d, f) == Append(d, f)
os_path_basename(p) == IF p = <<>> \/ p = <<ROOT>> THEN <<>> ELSE Last(p)

\* os.path.split: (head, tail); the tail of "" and of "/" is empty.
os_path_split(p) ==
    IF p = <<>> \/ p = <<ROOT>> THEN [head |-> p, tail |-> <<>>]
    ELSE [head |-> Front(p), tail |-> Last(p)]

\* path.endswith('.py') and path[:-3], path + '.py': on the last name.
path_endswith_py(p) == p # <<>> /\ p # <<ROOT>> /\ endswith(Last(p), PY)
strip_py(p) == [p EXCEPT ![Len(p)] = SubSeq(@, 1, Len(@) - 3)]
add_py(p) == IF p = <<>> \/ p = <<ROOT>> THEN Append(p, PY)
             ELSE [p EXCEPT ![Len(p)] = @ \o PY]

\* os.path.relpath(path, start), both made absolute first.
RECURSIVE common_len(_, _)
common_len(a, b) ==
    IF a = <<>> \/ b = <<>> \/ Head(a) # Head(b) THEN 0
    ELSE 1 + common_len(Tail(a), Tail(b))

os_path_relpath(path, start) ==
    LET a == abspath(path)
        s == abspath(start)
        i == common_len(a, s)
        rel == [k \in 1..(Len(s) - i) |-> DOTDOT] \o SubSeq(a, i + 1, Len(a))
    IN  IF rel = <<>> THEN <<DOT>> ELSE rel

(***************************************************************************)
(* _is_ignored, _is_python_dir, path_to_import (src/impall.py 233-296).    *)
(***************************************************************************)
_is_ignored(path) ==
    LET b == os_path_basename(path)
    IN  \/ startswith(b, <<".">>)
        \/ (startswith(b, <<"_", "_">>) /\ os_path_isdir(path))
        \/ b = INIT_PY

_is_python_dir(path) ==
    LET init == os_path_join(path, INIT_PY)
    IN  os_path_exists(init) /\ ~_is_ignored(path)

\* A test for a directory that does not look for a module of the same name.
p2i_isdir_plain(p) == os_path_isdir(p)

p2i_isdir(p) == os_path_isdir(p) /\ ~os_path_exists(add_py(p))

RECURSIVE p2i_loop(_, _)
p2i_loop(path, parts) ==
    IF ~p2i_isdir(path) \/ _is_python_dir(path)
    THEN LET sp == os_path_split(path)
         IN  IF sp.tail = <<>>
             THEN [path |-> sp.head,
                   parts |-> IF sp.head # <<>>
                             THEN Append(parts, path_str(sp.head)) ELSE parts]
             ELSE p2i_loop(sp.head, Append(parts, sp.tail))
    ELSE [path |-> path, parts |-> parts]

Reverse(s) == [i \in 1..Len(s) |-> s[Len(s) + 1 - i]]

\* [found, root, module]: found is FALSE where the code raises FileNotFoundError.
path_to_import(path) ==
    IF ~os_path_exists(path)
    THEN [found |-> FALSE, root |-> <<>>, module |-> <<>>]
    ELSE LET r == p2i_loop(IF path_endswith_py(path) THEN strip_py(path) ELSE path,
                           <<>>)
         IN  [found |-> TRUE, root |-> r.path,
              module |-> join_with(Reverse(r.parts), ".")]

(***************************************************************************)
(* os.walk(top), top-down, and the generator _all_imports (181-193).       *)
(* fs.order is the order in which the filesystem lists names.              *)
(***************************************************************************)
RECURSIVE select_seq(_, _)
select_seq(names, S) ==
    IF names = <<>> THEN <<>>
    ELSE (IF Head(names) \in S THEN <<Head(names)>> ELSE <<>>)
         \o select_seq(Tail(names), S)

listdir_dirs(d) ==
    select_seq(fs.order, {n \in {fs.order[i] : i \in 1..Len(fs.order)} :
                              Append(abspath(d), n) \in fs.dirs})
listdir_files(d) ==
    select_seq(fs.order, {n \in {fs.order[i] : i \in 1..Len(fs.order)} :
                              Append(abspath(d), n) \in fs.files})

\* A policy that takes every directory that is not ignored, in both modes.
_accept_dir_permissive(me, directory) == ~_is_ignored(directory)

_accept_dir(me, directory) ==
    IF me.MODULES THEN _is_python_dir(directory)
    ELSE ~_is_ignored(directory)

\* A loop over the files that does not look at the suffix.
RECURSIVE yield_files_any_suffix(_, _)
yield_files_any_suffix(directory, files) ==
    IF files = <<>> THEN <<>>
    ELSE (IF ~_is_ignored(<<Head(files)>>)
          THEN <<os_path_join(directory, Head(files))>> ELSE <<>>)
         \o yield_files_any_suffix(directory, Tail(files))

RECURSIVE yield_files(_, _)
yield_files(directory, files) ==
    IF files = <<>> THEN <<>>
    ELSE (IF endswith(Head(files), PY) /\ ~_is_ignored(<<Head(files)>>)
          THEN <<os_path_join(directory, Head(files))>> ELSE <<>>)
         \o yield_files(directory, Tail(files))

RECURSIVE walk_dir(_, _, _)
RECURSIVE walk_subs(_, _, _, _)
walk_dir(me, path, directory) ==
    IF directory # path /\ ~_accept_dir(me, directory)
    THEN <<>>                                   \* sub_dirs.clear(); continue
    ELSE (IF _is_python_dir(directory) THEN <<directory>> ELSE <<>>)
         \o yield_files(directory, listdir_files(directory))
         \o walk_subs(me, path, directory, listdir_dirs(directory))
walk_subs(me, path, directory, subs) ==
    IF subs = <<>> THEN <<>>
    ELSE walk_dir(me, path, os_path_join(directory, Head(subs)))
         \o walk_subs(me, path, directory, Tail(subs))

\* os.walk of a top that is no directory yields nothing (its error is dropped).
os_walk_units(me, path) ==
    IF os_path_isdir(path) THEN walk_dir(me, path, path) ELSE <<>>

RECURSIVE _all_imports(_, _)
_all_imports(me, paths) ==
    IF paths = <<>> THEN <<>>
    ELSE os_walk_units(me, Head(paths)) \o _all_imports(me, Tail(paths))

(***************************************************************************)
(* The filesystems and properties the model runs over.                     *)
(***************************************************************************)
DirW == <<ROOT, <<"w">>>>                       \* the working directory /w
DirP == Append(DirW, <<"p">>)                      \* /w/p
DirS == Append(DirP, <<"s">>)                      \* /w/p/s
DirQ == Append(DirS, <<"q">>)                      \* /w/p/s/q
DirX == Append(DirW, <<"x">>)                      \* /w/x, which never exists
A_PY == <<"a">> \o PY
B_PY == <<"b">> \o PY
C_PY == <<"c">> \o PY
DirN == Append(DirW, <<"n">>)                      \* /w/n
DirR == Append(DirP, <<"r">>)                      \* /w/p/r
DirCache == Append(DirP, <<"_", "_", "d">>)        \* /w/p/__d
DirHidden == Append(DirP, <<".", "g">>)            \* /w/p/.g
DirMain == Append(DirW, MAIN_PY)                   \* a directory /w/__main__.py
H_PY == <<".", "h">> \o PY                         \* the hidden file .h.py
T_TXT == <<"t", ".", "t", "x", "t">>

ListOrder ==
    <<INIT_PY, MAIN_PY, H_PY, A_PY, B_PY, C_PY, T_TXT, <<".", "g">>,
      <<"_", "_", "d">>, <<"n">>, <<"p">>, <<"r">>, <<"s">>, <<"q">>, <<"w">>>>

\* /w/p is a package with a.py and b.py.
FsFlat ==
    [dirs  |-> {<<ROOT>>, DirW, DirP},
     files |-> {Append(DirP, INIT_PY), Append(DirP, A_PY), Append(DirP, B_PY)},
     order |-> ListOrder]

\* /w/p is a package; /w/p/s is no package and holds c.py and the package q.
FsDeep ==
    [dirs  |-> {<<ROOT>>, DirW, DirP, DirS, DirQ},
     files |-> {Append(DirP, INIT_PY), Append(DirP, A_PY), Append(DirS, C_PY),
                Append(DirQ, INIT_PY)},
     order |-> ListOrder]

\* /w/p is a package and /w/n, beside it, is a plain directory with b.py.
FsTwo ==
    [dirs  |-> {<<ROOT>>, DirW, DirP, DirN},
     files |-> {Append(DirP, INIT_PY), Append(DirP, A_PY), Append(DirN, B_PY)},
     order |-> ListOrder]

Filesystems == {FsFlat, FsDeep, FsTwo}

\* /w/p is a package with __main__.py, a hidden file, a text file and a.py; it
\* holds the package r, and two packages in directories whose names start
\* with `__` and with `.`.
FsEdge ==
    [dirs  |-> {<<ROOT>>, DirW, DirP, DirR, DirCache, DirHidden},
     files |-> {Append(DirP, INIT_PY), Append(DirP, MAIN_PY), Append(DirP, H_PY),
                Append(DirP, T_TXT), Append(DirP, A_PY),
                Append(DirR, INIT_PY), Append(DirR, MAIN_PY),
                Append(DirCache, INIT_PY), Append(DirCache, A_PY),
                Append(DirHidden, INIT_PY), Append(DirHidden, A_PY)},
     order |-> ListOrder]

\* /w/p is a package that holds the module a.py and, beside it, a plain
\* directory a with c.py.
FsClash ==
    [dirs  |-> {<<ROOT>>, DirW, DirP, Append(DirP, <<"a">>)},
     files |-> {Append(DirP, INIT_PY), Append(DirP, A_PY),
                Append(Append(DirP, <<"a">>), C_PY)},
     order |-> ListOrder]

\* Every directory from / down to /w/p/r is a package.
FsAll ==
    [dirs  |-> {<<ROOT>>, DirW, DirP, DirR},
     files |-> {<<ROOT, INIT_PY>>, Append(DirW, INIT_PY), Append(DirP, INIT_PY),
                Append(DirP, A_PY), Append(DirR, INIT_PY), Append(DirR, B_PY)},
     order |-> ListOrder]

\* /w/p is a package with __main__.py and a.py, and /w holds a directory that
\* is itself called __main__.py.
FsShadow ==
    [dirs  |-> {<<ROOT>>, DirW, DirP, DirMain},
     files |-> {Append(DirP, INIT_PY), Append(DirP, MAIN_PY), Append(DirP, A_PY)},
     order |-> ListOrder]

s_p == <<"p">>
s_p_a == <<"p", "/", "a">>
s_p_b == <<"p", "/", "b">>
s_p_star == <<"p", "/", "*">>
s_p_a_py == s_p_a \o PY
s_p_b_py == s_p_b \o PY
s_p_z_py == <<"p", "/", "z">> \o PY

PathsChoices ==
    {NoneVal, Tuple(<<DirP>>), Tuple(<<DirX, DirP>>), Tuple(<<DirN, DirP>>)}
IncludeChoices == {NoneVal, Tuple(<<>>), Str(s_p \o <<":">> \o s_p_a)}
ExcludeChoices == {NoneVal, Tuple(<<s_p_star>>)}
FailingChoices == {Tuple(<<>>), Tuple(<<s_p_a_py, s_p_z_py>>)}
WarningsActions == {"default", "error"}

\* A warnings filter: simplefilter(action) installs (action, None, Warning, None, 0).
SimpleFilter(action) == [action |-> action, category |-> "Warning"]
UnitFilter == [action |-> "ignore", category |-> "DeprecationWarning"]
PriorFilters == {<<>>, <<UnitFilter, SimpleFilter("error")>>}

\* sys.modules: module names to module objects.
PriorModules == [k \in {"os"} |-> 1]
PriorPath == <<<<ROOT, <<"l">>>>>>

Properties ==
    [CLEAR_SYS_MODULES : BOOLEAN, EXCLUDE : ExcludeChoices,
     FAILING : FailingChoices, INCLUDE : IncludeChoices, MODULES : BOOLEAN,
     PATHS : PathsChoices, RAISE_EXCEPTIONS : BOOLEAN,
     WARNINGS_ACTION : WarningsActions]

NoCall ==
    [file |-> <<>>, root |-> <<>>, module |-> <<>>,
     attempted |-> FALSE, outcome |-> "none",
     saved_path |-> PriorPath, saved_modules |-> PriorModules,
     loaded_path |-> PriorPath, loaded_modules |-> PriorModules]

NoReport ==
    [result |-> "none", failed |-> <<>>, failed_to_fail |-> <<>>]

EngineInit ==
    /\ fs \in Filesystems
    /\ cwd = DirW
    /\ sys_path = PriorPath
    /\ sys_modules = PriorModules
    /\ filters \in PriorFilters
    /\ pc = "init"
    /\ todo = <<>>
    /\ yielded = <<>>
    /\ attempted = <<>>
    /\ successes = <<>>
    /\ failures = <<>>
    /\ raised = <<>>
    /\ last = NoCall
    /\ pre = [sys_path |-> sys_path, sys_modules |-> sys_modules,
              filters |-> filters]
    /\ report = NoReport

Init ==
    /\ self \in Properties
    /\ EngineInit
    /\ m_name = <<>>
    /\ m_inc = FALSE
    /\ m_exc = FALSE

(***************************************************************************)
(* impall (169-179): the paths, the warnings filter, the loop over the     *)
(* generator, and the pop of the filter on the way out.                    *)
(***************************************************************************)
impall_paths(me) ==
    IF falsy(me.PATHS)
    THEN LET root == path_to_import(cwd).root
         IN  IF root = <<>> THEN <<>> ELSE <<root>>
    ELSE _split(me.PATHS)

\* warnings.simplefilter(action): drop an equal entry, then insert at the front.
RECURSIVE list_remove(_, _)
list_remove(l, item) ==
    IF l = <<>> THEN <<>>
    ELSE IF Head(l) = item THEN Tail(l)
    ELSE <<Head(l)>> \o list_remove(Tail(l), item)

warnings_simplefilter(l, action) ==
    <<SimpleFilter(action)>> \o list_remove(l, SimpleFilter(action))

impall_begin ==
    /\ pc = "init"
    /\ filters' = warnings_simplefilter(filters, self.WARNINGS_ACTION)
    /\ todo' = _all_imports(self, impall_paths(self))
    /\ pc' = "run"
    /\ UNCHANGED <<self, fs, cwd, sys_path, sys_modules, yielded, attempted,
                   successes, failures, raised, last, pre, report,
                   m_name, m_inc, m_exc>>

\* filters.pop(0)
impall_pop_filter(l) == Tail(l)

impall_return ==
    /\ pc = "run"
    /\ todo = <<>>
    /\ filters' = impall_pop_filter(filters)
    /\ pc' = "returned"
    /\ UNCHANGED <<self, fs, cwd, sys_path, sys_modules, todo, yielded,
                   attempted, successes, failures, raised, last, pre, report,
                   m_name, m_inc, m_exc>>

(***************************************************************************)
(* _import (195-225).  The load itself, importlib.import_module, is the    *)
(* environment: it ends well, raises an Exception, or raises a             *)
(* BaseException that is no Exception (SystemExit, KeyboardInterrupt).     *)
(* What it leaves of sys.modules, sys.path and warnings.filters is one of  *)
(* three behaviours of a unit:                                             *)
(*   clean  registers its module "m" and touches nothing else;             *)
(*   dirty  registers "m", deletes the module "os", puts a directory of    *)
(*          its own in front of sys.path and installs a warnings filter;   *)
(*   rebind binds "os" to another module object and takes the first entry  *)
(*          of sys.path away again.                                        *)
(***************************************************************************)
Outcomes == {"ok", "Exception", "BaseException"}

dict_set(d, k, v) == [x \in DOMAIN d \cup {k} |-> IF x = k THEN v ELSE d[x]]
dict_del(d, k) == [x \in DOMAIN d \ {k} |-> d[x]]

LoadEffects(mods, path, filts) ==
    { [modules |-> dict_set(mods, "m", 1), path |-> path, filters |-> filts],
      [modules |-> dict_set(dict_del(mods, "os"), "m", 2),
       path |-> <<<<ROOT, <<"e">>>>>> \o path,
       filters |-> <<UnitFilter>> \o filts],
      [modules |-> dict_set(mods, "os", 2), path |-> Tail(path),
       filters |-> filts] }

\* lines 197-199: the name the matchers see; line 204: the name reported
_import_rel(file) ==
    LET path == IF path_endswith_py(file) THEN strip_py(file) ELSE file
    IN  path_str(os_path_relpath(path, cwd))

_import_file_path(file) == path_str(os_path_relpath(file, cwd))

\* A slip: exclusion forgotten.
_import_accepts_include_only(me, rel) == _inc(me, rel)

\* line 200: the unit goes on to the load
_import_accepts(me, rel) == ~(~_inc(me, rel) \/ _exc(me, rel))

\* lines 221-224: sys.modules after the finally clause
_import_restore_modules(me, loaded, saved) ==
    IF me.CLEAR_SYS_MODULES
    THEN LET added == DOMAIN loaded \ DOMAIN saved
             kept == [k \in DOMAIN loaded \ added |-> loaded[k]]
         IN  [k \in DOMAIN kept \cup DOMAIN saved |->
                  IF k \in DOMAIN saved THEN saved[k] ELSE kept[k]]
    ELSE loaded

\* A slip: sys.path.pop(0) in place of the slice assignment.
_import_restore_path_pop(loaded, saved) == Tail(loaded)

\* line 225: sys.path[:] = saved_path
_import_restore_path(loaded, saved) == saved

\* A slip: the test of RAISE_EXCEPTIONS dropped, every error leaves.
_import_propagates_always(me, outcome) == outcome # "ok"

\* A slip: the failure recorded before the test of RAISE_EXCEPTIONS.
_import_failures_always(me, fails, file_path, outcome) ==
    IF outcome = "Exception"
    THEN Append(fails, <<file_path, "traceback">>)
    ELSE fails

\* lines 214-219: what the outcome does to the two lists, and whether it leaves
_import_propagates(me, outcome) ==
    \/ outcome = "BaseException"
    \/ outcome = "Exception" /\ me.RAISE_EXCEPTIONS

_import_failures(me, fails, file_path, outcome) ==
    IF outcome = "Exception" /\ ~me.RAISE_EXCEPTIONS
    THEN Append(fails, <<file_path, "traceback">>)
    ELSE fails

\* A slip: the newest success put at the front.
_import_successes_front(succ, file_path, outcome) ==
    IF outcome = "ok" THEN <<file_path>> \o succ ELSE succ

_import_successes(succ, file_path, outcome) ==
    IF outcome = "ok" THEN Append(succ, file_path) ELSE succ

_import ==
    /\ pc = "run"
    /\ todo # <<>>
    /\ LET file == Head(todo)
           found == path_to_import(file)
           rel == _import_rel(file)
           file_path == _import_file_path(file)
       IN  /\ todo' = Tail(todo)
           /\ yielded' = Append(yielded, file)
           /\ IF ~_import_accepts(self, rel)
              THEN /\ last' = [NoCall EXCEPT !.file = file,
                                             !.root = found.root,
                                             !.module = found.module]
                   /\ UNCHANGED <<sys_path, sys_modules, filters, pc,
                                  attempted, successes, failures, raised>>
              ELSE \E outcome \in Outcomes :
                   \E loaded \in LoadEffects(sys_modules,
                                             <<found.root>> \o sys_path, filters) :
                      /\ attempted' = Append(attempted, file)
                      /\ successes' = _import_successes(successes, file_path, outcome)
                      /\ failures' = _import_failures(self, failures, file_path, outcome)
                      /\ sys_modules' = _import_restore_modules(self, loaded.modules, sys_modules)
                      /\ sys_path' = _import_restore_path(loaded.path, sys_path)
                      /\ filters' = loaded.filters
                      /\ last' = [file |-> file, root |-> found.root,
                                  module |-> found.module,
                                  attempted |-> TRUE,
                                  outcome |-> outcome,
                                  saved_path |-> sys_path,
                                  saved_modules |-> sys_modules,
                                  loaded_path |-> loaded.path,
                                  loaded_modules |-> loaded.modules]
                      /\ IF _import_propagates(self, outcome)
                         THEN pc' = "raised" /\ raised' = file
                         ELSE UNCHANGED <<pc, raised>>
    /\ UNCHANGED <<self, fs, cwd, pre, report, m_name, m_inc, m_exc>>

(***************************************************************************)
(* test_all (144-167).  Its first line calls impall: the run above is     *)
(* that call, and this step is the rest, taken once impall has returned.   *)
(* An error that left impall leaves test_all too, so nothing is reported.  *)
(***************************************************************************)
Range(s) == {s[i] : i \in 1..Len(s)}

test_all_expected(me) == Range(_split(me.FAILING))

\* A slip: every failure reported, expected or not.
test_all_failed_all(fails, expected) == fails

\* line 149: [(m, ex) for m, ex in failures if m not in expected]
RECURSIVE test_all_failed(_, _)
test_all_failed(fails, expected) ==
    IF fails = <<>> THEN <<>>
    ELSE (IF Head(fails)[1] \notin expected THEN <<Head(fails)>> ELSE <<>>)
         \o test_all_failed(Tail(fails), expected)

\* line 150: [m for m in successes if m in expected]
test_all_failed_to_fail(succ, expected) == select_seq(succ, expected)

\* lines 146, 166, 167: the first assertion that fails, or "pass"
test_all_result(succ, fails, failed, failed_to_fail) ==
    IF succ = <<>> /\ fails = <<>> THEN "No tests were found"
    ELSE IF failed # <<>> THEN "Some tests failed"
    ELSE IF failed_to_fail # <<>> THEN "Some tests failed to fail"
    ELSE "pass"

test_all ==
    /\ pc = "returned"
    /\ LET expected == test_all_expected(self)
           failed == test_all_failed(failures, expected)
           failed_to_fail == test_all_failed_to_fail(successes, expected)
       IN  report' = [result |-> test_all_result(successes, failures, failed,
                                                 failed_to_fail),
                      failed |-> failed,
                      failed_to_fail |-> failed_to_fail]
    /\ pc' = "tested"
    /\ UNCHANGED <<self, fs, cwd, sys_path, sys_modules, filters, todo, yielded,
                   attempted, successes, failures, raised, last, pre,
                   m_name, m_inc, m_exc>>

Next == impall_begin \/ _import \/ impall_return \/ test_all

Spec == Init /\ [][Next]_vars

(***************************************************************************)
(* The generator _all_imports on its own (181-193), drained one unit at a  *)
(* time: todo is what it has still to yield.                               *)
(***************************************************************************)
WalkFilesystems == {FsFlat, FsDeep, FsTwo, FsEdge, FsShadow}
WalkPaths == {NoneVal, Tuple(<<DirP>>), Tuple(<<DirS>>), Tuple(<<DirN, DirP>>)}
WalkCwds == {DirW, DirP}

WalkInit ==
    /\ self \in [CLEAR_SYS_MODULES : {TRUE}, EXCLUDE : {NoneVal},
                 FAILING : {Tuple(<<>>)}, INCLUDE : {NoneVal},
                 MODULES : BOOLEAN, PATHS : WalkPaths,
                 RAISE_EXCEPTIONS : {FALSE}, WARNINGS_ACTION : {"default"}]
    /\ fs \in WalkFilesystems
    /\ cwd \in WalkCwds
    /\ sys_path = PriorPath
    /\ sys_modules = PriorModules
    /\ filters = <<>>
    /\ pc = "init"
    /\ todo = <<>>
    /\ yielded = <<>>
    /\ attempted = <<>>
    /\ successes = <<>>
    /\ failures = <<>>
    /\ raised = <<>>
    /\ last = NoCall
    /\ pre = [sys_path |-> sys_path, sys_modules |-> sys_modules,
              filters |-> filters]
    /\ report = NoReport
    /\ m_name = <<>>
    /\ m_inc = FALSE
    /\ m_exc = FALSE

\* self._all_imports(paths): the generator is made.
walk_begin ==
    /\ pc = "init"
    /\ todo' = _all_imports(self, impall_paths(self))
    /\ pc' = "walk"
    /\ UNCHANGED <<self, fs, cwd, sys_path, sys_modules, filters, yielded,
                   attempted, successes, failures, raised, last, pre, report,
                   m_name, m_inc, m_exc>>

\* The generator yields its next unit.
walk_yield ==
    /\ pc = "walk"
    /\ todo # <<>>
    /\ yielded' = Append(yielded, Head(todo))
    /\ todo' = Tail(todo)
    /\ UNCHANGED <<self, fs, cwd, sys_path, sys_modules, filters, pc,
                   attempted, successes, failures, raised, last, pre, report,
                   m_name, m_inc, m_exc>>

WalkNext == walk_begin \/ walk_yield

WalkSpec == WalkInit /\ [][WalkNext]_vars

(***************************************************************************)
(* path_to_import on its own (233-259), called with the path of a file or  *)
(* of a directory, absolute or relative to the working directory.  last    *)
(* holds the call's path and what it returned.                             *)
(***************************************************************************)
ResolveFilesystems == {FsFlat, FsDeep, FsTwo, FsEdge, FsShadow, FsClash, FsAll}

\* An absolute path as it is written from the working directory, where it
\* lies beneath it.
RelativeForms(a) ==
    IF Len(a) > Len(cwd) /\ SubSeq(a, 1, Len(cwd)) = cwd
    THEN {SubSeq(a, Len(cwd) + 1, Len(a))} ELSE {}

ResolvePaths ==
    LET abs == fs.dirs \cup fs.files \cup {DirX, Append(DirP, B_PY)}
    IN  abs \cup UNION {RelativeForms(a) : a \in abs}

ResolveInit ==
    /\ self \in [CLEAR_SYS_MODULES : {TRUE}, EXCLUDE : {NoneVal},
                 FAILING : {Tuple(<<>>)}, INCLUDE : {NoneVal},
                 MODULES : {TRUE}, PATHS : {NoneVal},
                 RAISE_EXCEPTIONS : {FALSE}, WARNINGS_ACTION : {"default"}]
    /\ fs \in ResolveFilesystems
    /\ cwd \in WalkCwds
    /\ sys_path = PriorPath
    /\ sys_modules = PriorModules
    /\ filters = <<>>
    /\ pc = "init"
    /\ todo = <<>>
    /\ yielded = <<>>
    /\ attempted = <<>>
    /\ successes = <<>>
    /\ failures = <<>>
    /\ raised = <<>>
    /\ last = NoCall
    /\ pre = [sys_path |-> sys_path, sys_modules |-> sys_modules,
              filters |-> filters]
    /\ report = NoReport
    /\ m_name = <<>>
    /\ m_inc = FALSE
    /\ m_exc = FALSE

resolve ==
    /\ \E path \in ResolvePaths :
          LET found == path_to_import(path)
          IN  last' = [NoCall EXCEPT
                          !.file = path,
                          !.root = found.root,
                          !.module = found.module,
                          !.outcome = IF found.found THEN "returned"
                                      ELSE "FileNotFoundError"]
    /\ UNCHANGED <<self, fs, cwd, sys_path, sys_modules, filters, pc, todo,
                   yielded, attempted, successes, failures, raised, pre,
                   report, m_name, m_inc, m_exc>>

ResolveNext == resolve

ResolveSpec == ResolveInit /\ [][ResolveNext]_vars

(***************************************************************************)
(* The matchers on their own: _inc and _exc of a test case, applied to     *)
(* names.  m_name = <<>> says that no name has been handed over yet.       *)
(***************************************************************************)
s_a_star == <<"a", ".", "*">>
s_a_2star == <<"a", ".", "*", "*">>
s_b == <<"b">>
s_b_2star == <<"b", ".", "*", "*">>

MatchIncludes ==
    {NoneVal, Str(<<>>), Tuple(<<>>), Tuple(<<s_a_star>>), Tuple(<<s_a_2star>>),
     Tuple(<<s_b_2star>>), Str(s_b \o <<":">> \o s_a_star)}
MatchExcludes == {NoneVal, Tuple(<<s_b>>)}

NameChars == {"a", "b", "."}

\* Dotted names: no empty segment.
WellFormed(n) ==
    /\ n # <<>>
    /\ n[1] # "." /\ n[Len(n)] # "."
    /\ \A i \in 1..(Len(n) - 1) : ~(n[i] = "." /\ n[i + 1] = ".")

ProbeNames ==
    {n \in UNION {[1..k -> NameChars] : k \in 1..MaxNameLen} : WellFormed(n)}

MatchInit ==
    /\ self \in [CLEAR_SYS_MODULES : {TRUE}, EXCLUDE : MatchExcludes,
                 FAILING : {Tuple(<<>>)}, INCLUDE : MatchIncludes,
                 MODULES : {TRUE}, PATHS : {NoneVal},
                 RAISE_EXCEPTIONS : {FALSE}, WARNINGS_ACTION : {"default"}]
    /\ fs = FsFlat
    /\ filters = <<>>
    /\ EngineInit
    /\ m_name = <<>>
    /\ m_inc = FALSE
    /\ m_exc = FALSE

match ==
    /\ \E n \in ProbeNames :
          /\ m_name' = n
          /\ m_inc' = _inc(self, n)
          /\ m_exc' = _exc(self, n)
    /\ UNCHANGED <<self, fs, cwd, sys_path, sys_modules, filters, pc, todo,
                   yielded, attempted, successes, failures, raised, last, pre,
                   report>>

MatchNext == match

MatchSpec == MatchInit /\ [][MatchNext]_vars

(***************************************************************************)
(* Properties.                                                             *)
(***************************************************************************)
FailNames == {failures[i][1] : i \in 1..Len(failures)}
Finished == pc \in {"returned", "tested"}
Expected == Range(_split(self.FAILING))
Passes(u) == ~_exc(self, _import_rel(u)) /\ _inc(self, _import_rel(u))
WholeWalk == _all_imports(self, impall_paths(self))

\* C1: after every call of _import that got to the load, whatever the load's
\* outcome and whatever it did to them, sys.path is what it was before the call
\* and, with CLEAR_SYS_MODULES, sys.modules is the snapshot taken before the
\* load; so both keep their values from before the run.
C1_LoaderStateRestored ==
    /\ sys_path = pre.sys_path
    /\ self.CLEAR_SYS_MODULES => sys_modules = pre.sys_modules
    /\ last.attempted =>
          /\ sys_path = last.saved_path
          /\ self.CLEAR_SYS_MODULES => sys_modules = last.saved_modules

\* A second unit's load deleted "os", added "m", put a directory in front of
\* sys.path and raised, and the error left impall.
C1_Witness ==
    /\ self.CLEAR_SYS_MODULES /\ self.RAISE_EXCEPTIONS
    /\ pc = "raised" /\ last.attempted /\ last.outcome = "Exception"
    /\ Len(attempted) >= 2
    /\ "os" \notin DOMAIN last.loaded_modules
    /\ "m" \in DOMAIN last.loaded_modules
    /\ Len(last.loaded_path) = Len(last.saved_path) + 2

\* C2: once impall has finished, by returning or by a load error leaving it
\* under RAISE_EXCEPTIONS, the warnings filter list is what it was before the
\* call.
C2_WarningsRestored ==
    (\/ Finished
     \/ pc = "raised" /\ self.RAISE_EXCEPTIONS /\ last.outcome = "Exception")
    => filters = pre.filters

\* C3: a unit the walk yielded is attempted if and only if no EXCLUDE pattern
\* matches it and the INCLUDE matcher accepts it; in the result impall returns,
\* an attempted unit is in exactly one of successes and failures and a unit
\* that was not attempted is in neither.
C3_FiltersDecide ==
    \A i \in 1..Len(yielded) :
        LET u == yielded[i]
            name == _import_file_path(u)
            tried == u \in Range(attempted)
        IN  /\ tried <=> Passes(u)
            /\ _exc(self, _import_rel(u)) =>
                  name \notin Range(successes) /\ name \notin FailNames
            /\ Finished =>
                  IF tried
                  THEN (name \in Range(successes)) # (name \in FailNames)
                  ELSE name \notin Range(successes) /\ name \notin FailNames

\* impall returned; a unit that INCLUDE names and EXCLUDE matches was skipped,
\* one unit loaded and one failed.
C3_Witness ==
    /\ pc = "returned"
    /\ self.INCLUDE.kind # "none"
    /\ \E i \in 1..Len(yielded) :
          /\ _inc(self, _import_rel(yielded[i]))
          /\ _exc(self, _import_rel(yielded[i]))
          /\ yielded[i] \notin Range(attempted)
    /\ attempted # <<>>

\* C4: with RAISE_EXCEPTIONS false, a load that raises an Exception adds one
\* (name, detail) entry for its unit to failures and nothing to successes, the
\* error does not leave impall, and the walk goes on: when impall returns,
\* every unit of the whole walk that passes the filters has been attempted.
C4_Step ==
    (~self.RAISE_EXCEPTIONS /\ attempted' # attempted
        /\ last'.outcome = "Exception")
    => /\ failures' = Append(failures, <<_import_file_path(last'.file), "traceback">>)
       /\ successes' = successes
       /\ pc' = "run" /\ raised' = <<>>
       /\ todo' = Tail(todo)

C4_Captured ==
    /\ [][C4_Step]_vars
    /\ [](~self.RAISE_EXCEPTIONS /\ Finished =>
            /\ yielded = WholeWalk
            /\ \A i \in 1..Len(yielded) :
                  Passes(yielded[i]) => yielded[i] \in Range(attempted)
            /\ Len(successes) + Len(failures) = Len(attempted))

\* impall returned with a failure recorded for a unit that is not the last
\* one attempted.
C4_Witness ==
    /\ ~self.RAISE_EXCEPTIONS /\ pc = "returned"
    /\ \E i \in 1..(Len(attempted) - 1) :
          _import_file_path(attempted[i]) \in FailNames

\* C5: with RAISE_EXCEPTIONS true, the first unit whose load raises makes the
\* error leave impall: it is the last unit yielded and the last attempted,
\* nothing is attempted afterwards, it is not in failures, every unit before it
\* that passes the filters was attempted, and all of those loaded.
C5_State ==
    self.RAISE_EXCEPTIONS =>
        /\ failures = <<>>
        /\ (last.attempted /\ last.outcome # "ok") =>
              pc = "raised" /\ raised = last.file
        /\ raised # <<>> =>
              /\ pc = "raised"
              /\ yielded[Len(yielded)] = raised
              /\ attempted[Len(attempted)] = raised
              /\ _import_file_path(raised) \notin Range(successes)
              /\ \A i \in 1..Len(yielded) :
                    Passes(yielded[i]) => yielded[i] \in Range(attempted)
              /\ successes = [i \in 1..(Len(attempted) - 1) |->
                                _import_file_path(attempted[i])]

C5_FailFast ==
    /\ []C5_State
    /\ [][pc = "raised" =>
            /\ attempted' = attempted /\ yielded' = yielded
            /\ successes' = successes /\ failures' = failures
            /\ pc' = "raised"]_vars

\* The second unit attempted raised an Exception; the walk had more to yield.
C5_Witness ==
    /\ self.RAISE_EXCEPTIONS /\ pc = "raised"
    /\ last.outcome = "Exception"
    /\ Len(attempted) >= 2
    /\ todo # <<>>

\* C6: with an entry of PATHS that does not exist, impall never returns a
\* result.
C6_MissingRootFatal ==
    (\E i \in 1..Len(impall_paths(self)) : ~os_path_exists(impall_paths(self)[i]))
    => ~Finished

\* C7: what test_all reports: the unexpected failures are the failures whose
\* name is not in FAILING, the failures to fail are the successes whose name is
\* in FAILING, and a unit of FAILING that failed is in neither, while impall's
\* failures still hold it.
C7_Reconciliation ==
    pc = "tested" =>
        /\ \A f \in Range(failures) \cup Range(report.failed) :
              f \in Range(report.failed) <=>
                  (f \in Range(failures) /\ f[1] \notin Expected)
        /\ \A m \in Range(successes) \cup Range(report.failed_to_fail) :
              m \in Range(report.failed_to_fail) <=>
                  (m \in Range(successes) /\ m \in Expected)
        /\ \A f \in Range(failures) :
              f[1] \in Expected =>
                  /\ f \notin Range(report.failed)
                  /\ f[1] \notin Range(report.failed_to_fail)

\* A unit of FAILING failed and another unit failed too: one failure reported.
C7_Witness ==
    /\ pc = "tested"
    /\ Len(failures) = 2
    /\ \E i \in 1..2 : failures[i][1] \in Expected
    /\ Len(report.failed) = 1
    /\ report.result = "Some tests failed"

\* C8: test_all fails when an entry of FAILING is absent from the failures.
C8_ExpectedMustFail ==
    (pc = "tested" /\ \E e \in Expected : e \notin FailNames)
    => report.result # "pass"

\* C9: an include matcher built from an empty INCLUDE accepts every name.
C9_EmptyIncludeAcceptsAll ==
    (m_name # <<>> /\ self.INCLUDE.kind # "none" /\ falsy(self.INCLUDE))
    => m_inc

\* C10: the matcher of `a.*` accepts a name if and only if the name has exactly
\* two segments and the first is `a`.
C10_SingleWildcardOneSegment ==
    (m_name # <<>> /\ self.INCLUDE = Tuple(<<s_a_star>>))
    => (m_inc <=> (/\ Len(split(m_name, ".")) = 2
                   /\ split(m_name, ".")[1] = <<"a">>))

\* C11 as stated: the matcher of `a.**` accepts a name if and only if the
\* name's first segment is `a`, with any number of further segments, none
\* included.
C11_DoubleWildcardZeroOrMore ==
    (m_name # <<>> /\ self.INCLUDE = Tuple(<<s_a_2star>>))
    => (m_inc <=> split(m_name, ".")[1] = <<"a">>)

\* C11, amended: the matcher of `a.**` accepts a name if and only if the
\* name's first segment is `a` and at least one more segment follows it; it
\* accepts `a.b` and `a.b.a` and rejects `a` and `ab`.
C11_DoubleWildcardOneOrMore ==
    (m_name # <<>> /\ self.INCLUDE = Tuple(<<s_a_2star>>))
    => /\ m_inc <=> (/\ Len(split(m_name, ".")) >= 2
                     /\ split(m_name, ".")[1] = <<"a">>)
       /\ m_name \in {<<"a", ".", "b">>, <<"a", ".", "b", ".", "a">>} => m_inc
       /\ m_name \in {<<"a">>, <<"a", "b">>} => ~m_inc

\* `a.**` was asked about a name of three segments and accepted it.
C11_Witness ==
    /\ self.INCLUDE = Tuple(<<s_a_2star>>)
    /\ m_name = <<"a", ".", "b", ".", "a">>
    /\ m_inc

\* C12: the pattern `b.**` (the documentation's `baz.**`) matches `b.a` and
\* `b.a.b` but not the bare name `b`: whatever it accepts has the literal
\* prefix and at least one segment after it.
C12_DoubleWildcardNeedsSegment ==
    (m_name # <<>> /\ self.INCLUDE = Tuple(<<s_b_2star>>))
    => /\ m_name \in {<<"b", ".", "a">>, <<"b", ".", "a", ".", "b">>} => m_inc
       /\ m_name = <<"b">> => ~m_inc
       /\ m_inc => /\ Len(m_name) >= 3
                   /\ SubSeq(m_name, 1, 2) = <<"b", ".">>

\* `b.**` was asked about the bare name `b` and rejected it.
C12_Witness ==
    /\ self.INCLUDE = Tuple(<<s_b_2star>>)
    /\ m_name = <<"b">>
    /\ ~m_inc

IsPrefix(a, b) == Len(a) <= Len(b) /\ SubSeq(b, 1, Len(a)) = a
WalkDone == pc = "walk" /\ todo = <<>>
WalkRoots == Range(impall_paths(self))

\* C13: in strict mode every unit the walk yields lies beneath a root with
\* nothing but package directories between the root and the unit, so nothing
\* beneath a subdirectory that is no package is yielded, a package deeper down
\* included; and a root that is a directory is descended, package or not: the
\* source files and the package directories directly in it are yielded.
C13_StrictPruningAbsolute ==
    self.MODULES =>
        /\ \A i \in 1..Len(yielded) :
              \E r \in WalkRoots :
                  /\ IsPrefix(r, yielded[i])
                  /\ \A k \in (Len(r) + 1)..(Len(yielded[i]) - 1) :
                        _is_python_dir(SubSeq(yielded[i], 1, k))
        /\ WalkDone =>
              \A r \in WalkRoots :
                  /\ \A f \in fs.files :
                        (/\ Front(f) = r /\ endswith(Last(f), PY)
                         /\ ~_is_ignored(<<Last(f)>>))
                        => f \in Range(yielded)
                  /\ \A d \in fs.dirs :
                        (Front(d) = r /\ _is_python_dir(d)) => d \in Range(yielded)

\* The strict walk of the package p is over: p and p/a.py were yielded, and
\* neither c.py in the plain directory p/s nor the package p/s/q below it was.
C13_Witness ==
    /\ self.MODULES /\ fs = FsDeep /\ self.PATHS = Tuple(<<DirP>>)
    /\ WalkDone
    /\ DirP \in Range(yielded)
    /\ Append(DirP, A_PY) \in Range(yielded)
    /\ DirQ \notin Range(yielded)
    /\ Append(DirS, C_PY) \notin Range(yielded)

Dunder == <<"_", "_">>
YieldedFiles == {u \in Range(yielded) : u \in fs.files}
\* The directories whose files the walk looked at: the roots and the
\* directories it went into, which in these trees are the packages it yielded.
Visited ==
    {r \in WalkRoots : r \in fs.dirs} \cup {u \in Range(yielded) : u \in fs.dirs}

\* C16 as stated: a file the walk yields ends with .py, is not __init__.py and
\* its name starts neither with `.` nor with `__`.
C16_ReservedNeverYielded ==
    \A u \in YieldedFiles :
        /\ endswith(Last(u), PY)
        /\ Last(u) # INIT_PY
        /\ ~startswith(Last(u), DOT)
        /\ ~startswith(Last(u), Dunder)

\* C16, amended: a file the walk yields ends with .py, is not __init__.py and
\* its name does not start with `.`, in both modes and whatever the working
\* directory; a file whose name starts with `__`, such as __main__.py, is
\* yielded like any other source file of a directory the walk looks at, unless
\* the working directory holds a directory of that very name.
C16_IgnoredFilesNotYielded ==
    /\ \A u \in YieldedFiles :
          /\ endswith(Last(u), PY)
          /\ Last(u) # INIT_PY
          /\ ~startswith(Last(u), DOT)
          /\ ~(startswith(Last(u), Dunder) /\ Append(cwd, Last(u)) \in fs.dirs)
    /\ WalkDone =>
          \A f \in fs.files :
              (/\ Front(f) \in Visited
               /\ endswith(Last(f), PY)
               /\ Last(f) # INIT_PY
               /\ ~startswith(Last(f), DOT)
               /\ ~(startswith(Last(f), Dunder) /\ Append(cwd, Last(f)) \in fs.dirs))
              => f \in YieldedFiles

\* The walk of p is over: p/__main__.py and p/a.py were yielded, and
\* p/__init__.py, the hidden p/.h.py and p/t.txt were not.
C16_Witness ==
    /\ fs = FsEdge /\ WalkDone
    /\ Append(DirP, MAIN_PY) \in YieldedFiles
    /\ Append(DirP, A_PY) \in YieldedFiles
    /\ Append(DirP, INIT_PY) \notin YieldedFiles
    /\ Append(DirP, H_PY) \notin YieldedFiles
    /\ Append(DirP, T_TXT) \notin YieldedFiles

RECURSIVE IsSubseq(_, _)
IsSubseq(a, b) ==
    IF a = <<>> THEN TRUE
    ELSE IF b = <<>> THEN FALSE
    ELSE IF Head(a) = Head(b) THEN IsSubseq(Tail(a), Tail(b))
    ELSE IsSubseq(a, Tail(b))

FailSeq == [i \in 1..Len(failures) |-> failures[i][1]]
\* The place in paths of the root a unit lies beneath (0 for none).
RootOf(paths, u) ==
    LET ks == {k \in 1..Len(paths) : IsPrefix(paths[k], u)}
    IN  IF ks = {} THEN 0 ELSE CHOOSE k \in ks : \A j \in ks : k <= j

\* C15: the whole walk lists a directory before everything beneath it, so
\* directories come top-down and a package before its files, and the units of
\* an earlier root of PATHS before those of a later one; every step of the run
\* takes the walk's next unit, so the units yielded so far and the ones to come
\* are the whole walk, in its order; and the units attempted, the successes
\* and the names in failures are each a subsequence of the walk, at every
\* moment and so in the result impall returns.
C15_WalkOrder ==
    pc # "init" =>
        LET walk == yielded \o todo
            paths == impall_paths(self)
            roots == [i \in 1..Len(walk) |-> RootOf(paths, walk[i])]
            names == [i \in 1..Len(walk) |-> _import_file_path(walk[i])]
        IN  /\ walk = WholeWalk
            /\ \A i, j \in 1..Len(walk) :
                  /\ (/\ i # j /\ walk[i] \in fs.dirs
                      /\ IsPrefix(walk[i], walk[j])) => i < j
                  /\ roots[i] < roots[j] => i < j
            /\ IsSubseq(attempted, yielded)
            /\ IsSubseq(successes, names)
            /\ IsSubseq(FailSeq, names)

C15_Step ==
    attempted' # attempted =>
        /\ todo # <<>>
        /\ attempted' = Append(attempted, Head(todo))
        /\ yielded' = Append(yielded, Head(todo))
        /\ todo' = Tail(todo)
        /\ \/ successes' = Append(successes, _import_file_path(Head(todo)))
              /\ failures' = failures
           \/ failures' = Append(failures, <<_import_file_path(Head(todo)), "traceback">>)
              /\ successes' = successes
           \/ pc' = "raised" /\ successes' = successes /\ failures' = failures

C15_OrderPreserved == []C15_WalkOrder /\ [][C15_Step]_vars

\* impall returned from the roots /w/n and /w/p: n/b.py loaded, then the
\* package p failed, then p/a.py loaded.
C15_Witness ==
    /\ pc = "returned" /\ fs = FsTwo
    /\ self.PATHS = Tuple(<<DirN, DirP>>)
    /\ attempted = <<Append(DirN, B_PY), DirP, Append(DirP, A_PY)>>
    /\ successes = <<<<"n", "/", "b">> \o PY, s_p_a_py>>
    /\ FailSeq = <<s_p>>

=============================================================================
